---- MODULE Spec2Model ----
(***************************************************************************)
(* The replicated-command layer of etcd (command.go): the six commands     *)
(* Set, TestAndSet, Get, Delete, Watch and Join, committed in one order    *)
(* and applied by every node against its own store, routing directory and  *)
(* raft peer list.                                                         *)
(*                                                                         *)
(* command.go is the only file modelled from source.  The store package,   *)
(* machineNum, addNameToURL and maxClusterSize belong to the repository    *)
(* but are defined in other files; raft.Server is the consensus engine.    *)
(* They are modelled from the contract the specification gives for them.   *)
(***************************************************************************)
EXTENDS Integers, Sequences, FiniteSets, TLC

(***************************************************************************)
(* Bounds of the model.                                                    *)
(***************************************************************************)
\* number of entries the consensus engine commits
MaxIndex == 3
\* the same, where only Join and membership-record commands are proposed
MaxJoinIndex == 4
\* committed entries a node may have received and not yet applied
MaxQueue == 1
\* the same, where entries are committed while the node is inside a Watch
MaxBacklog == 2
\* the configured maximum number of machines in the cluster
maxClusterSize == 2

Nodes == {1, 2}
\* the node of a one-node cluster, whose clients also call Apply themselves
DirectNodes == {1}
\* "log": the node's apply path; "direct": a caller that invokes Apply
\* itself, without proposing the command
Ctxs == {"log", "direct"}

\* the names machines join under, and one more name that has a record
Names == {"n1", "n2", "n3"}
RecordNames == Names \cup {"n0"}
PlainKeys == {"a", "b"}
Values == {"1", "2"}
\* sinceIndex values of Watch: 0 and one positive index
SinceIndexes == {0, 2}

\* time.Unix(0, 0), the expire time of a permanent record
PERMANENT == "1970-01-01T00:00:00Z"
\* time.Time{}, the zero value, and one real expire time
ZeroTime == "0001-01-01T00:00:00Z"
ExpireTimes == {ZeroTime, "2013-08-01T00:00:00Z"}

(***************************************************************************)
(* Values returned by Apply: (interface{}, error).                         *)
(***************************************************************************)
\* a nil interface{} / a nil *Response
Nil == [kind |-> "nil"]
\* a nil error
NoError == [kind |-> "nil"]
\* a []byte literal
Bytes(s) == [kind |-> "bytes", text |-> s]

commandPrefix == "etcd:"

commandName(name) == commandPrefix \o name

\* etcdErr.NewError(code, cause)
NewError(code, cause) == [kind |-> "etcdErr", errorCode |-> code, cause |-> cause]

\* fmt.Errorf(msg)
Errorf(msg) == [kind |-> "errorString", msg |-> msg]

\* json.Marshal(res) of a non-nil *Response
Marshal(res) == [kind |-> "json", body |-> res]

\* path.Join(dir, name) for a name that is one non-empty path element
pathJoin(dir, name) == dir \o "/" \o name

MachineKey(name) == pathJoin("_etcd/machines", name)

MachineKeys == {MachineKey(nm) : nm \in RecordNames}

Keys == PlainKeys \cup MachineKeys

(***************************************************************************)
(* The commands (the structs of command.go) and the ones proposed.         *)
(***************************************************************************)
SetCommand(key, value, expireTime) ==
    [type |-> "set", Key |-> key, Value |-> value, ExpireTime |-> expireTime]

TestAndSetCommand(key, value, prevValue, expireTime) ==
    [type |-> "testAndSet", Key |-> key, Value |-> value, PrevValue |-> prevValue,
     ExpireTime |-> expireTime]

GetCommand(key) == [type |-> "get", Key |-> key]

DeleteCommand(key) == [type |-> "delete", Key |-> key]

WatchCommand(key, sinceIndex) == [type |-> "watch", Key |-> key, SinceIndex |-> sinceIndex]

JoinCommand(name, raftURL, etcdURL) ==
    [type |-> "join", Name |-> name, RaftURL |-> raftURL, EtcdURL |-> etcdURL]

Sets == {SetCommand("a", "1", ZeroTime)}
        \cup {SetCommand("a", "2", e) : e \in ExpireTimes \ {ZeroTime}}

\* a Set of another key than the one watched
OtherSets == {SetCommand(k, "1", ZeroTime) : k \in PlainKeys \ {"a"}}

TestAndSets == {TestAndSetCommand("a", v, "1", PERMANENT) : v \in Values}

Gets == {GetCommand("a")}

Deletes == {DeleteCommand("a")}

Watches == {WatchCommand("a", i) : i \in SinceIndexes}

Joins == {JoinCommand(nm, "r1", "e1") : nm \in Names}

\* a machine joins again under other URLs
Rejoins == {JoinCommand(nm, "r2", "e2") : nm \in {"n1", "n2"}}

\* commands on the membership records themselves
RecordCommands == {SetCommand(MachineKey("n0"), "1", PERMANENT),
                   DeleteCommand(MachineKey("n1"))}

\* the commands proposed while Watches wait
WatchCommands == Sets \cup OtherSets \cup Deletes \cup Watches

JoinCommands == Joins \cup Rejoins \cup RecordCommands

\* the commands proposed to the two-node cluster
Commands == Sets \cup TestAndSets \cup Gets \cup Deletes \cup Joins

CommandName(c) == commandName(c.type)

(***************************************************************************)
(* The store package, as the specification describes its contract.  A node *)
(* state S is [store, nameToURL, peers, calls]; S.store maps each present  *)
(* key to its record and S.calls lists, in order, the calls the running    *)
(* Apply has made that write to the store, the routing directory or the    *)
(* raft server.  Every operation returns the new node state, the (result,  *)
(* error) pair and the change event handed to the watchers (Nil: none).    *)
(***************************************************************************)
\* S after one more call of the running Apply
Called(S, call) == [S EXCEPT !.calls = Append(@, call)]

Response(action, key, prevValue, value, index, expiration) ==
    [kind |-> "response", action |-> action, key |-> key, prevValue |-> prevValue,
     value |-> value, index |-> index, expiration |-> expiration]

StoreError(condition) == [kind |-> "storeErr", condition |-> condition]

Outcome(S, ret, err, event) == [S |-> S, ret |-> ret, err |-> err, event |-> event]

StoreValue(S, key) == IF key \in DOMAIN S.store THEN S.store[key].value ELSE ""

StoreSet(S, key, value, expireTime, index) ==
    LET node == [value |-> value, expireTime |-> expireTime, index |-> index]
        resp == Response("SET", key, StoreValue(S, key), value, index, expireTime)
        call == [op |-> "Set", key |-> key, value |-> value, expireTime |-> expireTime,
                 index |-> index]
    IN  Outcome(Called([S EXCEPT !.store = (key :> node) @@ S.store], call),
                resp, NoError, resp)

StoreTestAndSet(S, key, prevValue, value, expireTime, index) ==
    IF key \in DOMAIN S.store /\ S.store[key].value = prevValue
    THEN StoreSet(S, key, value, expireTime, index)
    ELSE Outcome(S, Nil, StoreError("CompareMismatch"), Nil)

StoreGet(S, key) ==
    IF key \in DOMAIN S.store
    THEN Outcome(S, Response("GET", key, "", S.store[key].value, S.store[key].index,
                             S.store[key].expireTime), NoError, Nil)
    ELSE Outcome(S, Nil, StoreError("KeyNotFound"), Nil)

StoreDelete(S, key, index) ==
    IF key \in DOMAIN S.store
    THEN LET resp == Response("DELETE", key, S.store[key].value, "", index, PERMANENT)
             call == [op |-> "Delete", key |-> key, index |-> index]
         IN  Outcome(Called([S EXCEPT !.store = [k \in DOMAIN S.store \ {key} |-> S.store[k]]],
                            call),
                     resp, NoError, resp)
    ELSE Outcome(S, Nil, StoreError("KeyNotFound"), Nil)

\* the responses found at key: none (a nil slice) when the key is absent
RawGet(S, key) ==
    IF key \in DOMAIN S.store
    THEN << Response("GET", key, "", S.store[key].value, S.store[key].index,
                     S.store[key].expireTime) >>
    ELSE << >>

\* the number of records under _etcd/machines
machineNum(S) == Cardinality(DOMAIN S.store \cap MachineKeys)

\* the routing directory: name -> {raftURL, etcdURL}
addNameToURL(S, name, raftURL, etcdURL) ==
    Called([S EXCEPT !.nameToURL = (name :> [raftURL |-> raftURL, etcdURL |-> etcdURL])
                                   @@ S.nameToURL],
           [op |-> "addNameToURL", name |-> name, raftURL |-> raftURL,
            etcdURL |-> etcdURL])

\* raft.Server.AddPeer: ok is whether the consensus engine accepts the peer
AddPeer(S, name, ok) ==
    LET call == [op |-> "AddPeer", name |-> name, ok |-> ok]
    IN  IF ok THEN [S |-> Called([S EXCEPT !.peers = S.peers \cup {name}], call),
                    err |-> NoError]
        ELSE [S |-> Called(S, call), err |-> [kind |-> "raftErr", msg |-> "AddPeer"]]

(***************************************************************************)
(* Apply of each command (command.go).  idx is server.CommitIndex().       *)
(***************************************************************************)
\* a local counter in the place of server.CommitIndex()
SetCommandApplyLocalIndex(c, S, idx) ==
    StoreSet(S, c.Key, c.Value, c.ExpireTime, Cardinality(DOMAIN S.store) + 1)

SetCommandApply(c, S, idx) ==
    StoreSet(S, c.Key, c.Value, c.ExpireTime, idx)

\* Value and PrevValue handed to the store in the order of the struct's fields
TestAndSetCommandApplySwapped(c, S, idx) ==
    StoreTestAndSet(S, c.Key, c.Value, c.PrevValue, c.ExpireTime, idx)

TestAndSetCommandApply(c, S, idx) ==
    StoreTestAndSet(S, c.Key, c.PrevValue, c.Value, c.ExpireTime, idx)

\* the key taken out of the store as it is read
GetCommandApplyConsume(c, S) ==
    LET out == StoreGet(S, c.Key)
    IN  Outcome([S EXCEPT !.store = [k \in DOMAIN S.store \ {c.Key} |-> S.store[k]]],
                out.ret, out.err, Nil)

GetCommandApply(c, S) ==
    StoreGet(S, c.Key)

\* the key emptied, left in the store
DeleteCommandApplyEmpty(c, S, idx) ==
    IF c.Key \in DOMAIN S.store
    THEN StoreSet(S, c.Key, "", PERMANENT, idx)
    ELSE Outcome(S, Nil, StoreError("KeyNotFound"), Nil)

DeleteCommandApply(c, S, idx) ==
    StoreDelete(S, c.Key, idx)

\* the record looked up under the machine's raft URL
JoinIsReplayByURL(c, S) ==
    RawGet(S, pathJoin("_etcd/machines", c.RaftURL)) # << >>

\* a machine taken for a previous one only when its record holds its URLs
JoinIsReplaySameURLs(c, S) ==
    LET response == RawGet(S, pathJoin("_etcd/machines", c.Name))
    IN  /\ response # << >>
        /\ response[1].value = "raft=" \o c.RaftURL \o "&etcd=" \o c.EtcdURL

\* a machine taken for a previous one when it is a raft peer
JoinIsReplayByPeer(c, S) ==
    c.Name \in S.peers

\* Join, the replay check: response != nil
JoinIsReplay(c, S) ==
    RawGet(S, pathJoin("_etcd/machines", c.Name)) # << >>

\* the cluster counts as full only beyond the maximum
ClusterIsOverFull(num) == num > maxClusterSize

\* Join, the capacity check: num == maxClusterSize
ClusterIsFull(num) == num = maxClusterSize

\* the Join given up when AddPeer fails, before the record is written
JoinAcceptStopOnError(c, S, idx, addPeerOk) ==
    LET S1 == addNameToURL(S, c.Name, c.RaftURL, c.EtcdURL)
        p == AddPeer(S1, c.Name, addPeerOk)
        key == pathJoin("_etcd/machines", c.Name)
        value == "raft=" \o c.RaftURL \o "&etcd=" \o c.EtcdURL
        w == StoreSet(p.S, key, value, PERMANENT, idx)
    IN  IF p.err # NoError
        THEN Outcome(p.S, Bytes("join fail"), p.err, Nil)
        ELSE Outcome(w.S, Bytes("join success"), p.err, w.event)

\* the record written before the peer is added
JoinAcceptRecordFirst(c, S, idx, addPeerOk) ==
    LET S1 == addNameToURL(S, c.Name, c.RaftURL, c.EtcdURL)
        key == pathJoin("_etcd/machines", c.Name)
        value == "raft=" \o c.RaftURL \o "&etcd=" \o c.EtcdURL
        w == StoreSet(S1, key, value, PERMANENT, idx)
        p == AddPeer(w.S, c.Name, addPeerOk)
    IN  Outcome(p.S, Bytes("join success"), p.err, w.event)

\* Join, the side effects of an accepted request
JoinAccept(c, S, idx, addPeerOk) ==
    LET S1 == addNameToURL(S, c.Name, c.RaftURL, c.EtcdURL)
        p == AddPeer(S1, c.Name, addPeerOk)
        key == pathJoin("_etcd/machines", c.Name)
        value == "raft=" \o c.RaftURL \o "&etcd=" \o c.EtcdURL
        w == StoreSet(p.S, key, value, PERMANENT, idx)
    IN  Outcome(w.S, Bytes("join success"), p.err, w.event)

\* the capacity check made before the replay check
JoinCommandApplyCapacityFirst(c, S, idx, addPeerOk) ==
    IF ClusterIsFull(machineNum(S))
    THEN Outcome(S, Bytes("join fail"), NewError(103, ""), Nil)
    ELSE IF JoinIsReplay(c, S)
    THEN Outcome(S, Bytes("join success"), NoError, Nil)
    ELSE JoinAccept(c, S, idx, addPeerOk)

JoinCommandApply(c, S, idx, addPeerOk) ==
    IF JoinIsReplay(c, S)
    THEN Outcome(S, Bytes("join success"), NoError, Nil)
    ELSE IF ClusterIsFull(machineNum(S))
    THEN Outcome(S, Bytes("join fail"), NewError(103, ""), Nil)
    ELSE JoinAccept(c, S, idx, addPeerOk)

\* the watcher registered without the command's SinceIndex
WatchCommandAddWatcherNoIndex(c, ctx) ==
    [ctx |-> ctx, key |-> c.Key, sinceIndex |-> 0]

\* the first half of WatchCommand.Apply: the watcher handed to AddWatcher
WatchCommandAddWatcher(c, ctx) ==
    [ctx |-> ctx, key |-> c.Key, sinceIndex |-> c.SinceIndex]

\* the result marshalled whatever came out of watcher.C
WatchCommandReturnNoCheck(res) ==
    [ret |-> Marshal(res), err |-> NoError]

\* the second half of WatchCommand.Apply: res is what came out of watcher.C
WatchCommandReturn(res) ==
    IF res = Nil
    THEN [ret |-> Nil, err |-> Errorf("Clearing watch")]
    ELSE [ret |-> Marshal(res), err |-> NoError]

\* dispatch of a committed command that does not suspend
Apply(c, S, idx, addPeerOk) ==
    CASE CommandName(c) = "etcd:set" -> SetCommandApply(c, S, idx)
      [] CommandName(c) = "etcd:testAndSet" -> TestAndSetCommandApply(c, S, idx)
      [] CommandName(c) = "etcd:get" -> GetCommandApply(c, S)
      [] CommandName(c) = "etcd:delete" -> DeleteCommandApply(c, S, idx)
      [] CommandName(c) = "etcd:join" -> JoinCommandApply(c, S, idx, addPeerOk)

(***************************************************************************)
(* The state of the cluster.                                               *)
(***************************************************************************)
VARIABLES
    commitIndex,   \* the index of the last entry the consensus engine committed
    queue,         \* queue[n]: the committed entries node n has not applied yet
    store,         \* store[n]: etcdStore of node n, key -> record
    nameToURL,     \* nameToURL[n]: the routing directory of node n
    peers,         \* peers[n]: the peers of node n's raft server
    watchers,      \* watchers[n]: the watchers registered at node n's store
    chan,          \* chan[n][ctx]: watcher.C of the Watch running in ctx
    pc,            \* pc[n][ctx]: "idle", or "waiting" inside WatchCommand.Apply
    directCmd,     \* directCmd[n]: the Watch command a direct caller is inside
    last,          \* last[n][ctx]: what the latest Apply in ctx returned
    lastMutation,  \* lastMutation[n][k]: the entry that last changed key k
    registered     \* registered[n][ctx]: how many entries node n had applied
                   \* when the latest Watch in ctx registered its watcher

vars == << commitIndex, queue, store, nameToURL, peers, watchers, chan, pc,
           directCmd, last, lastMutation, registered >>

\* the state an Apply at node n starts from: it has made no call yet
NodeState(n) == [store |-> store[n], nameToURL |-> nameToURL[n], peers |-> peers[n],
                 calls |-> << >>]

NoEntry == [index |-> 0, cmd |-> Nil]

EmptyState == [store |-> << >>, nameToURL |-> << >>, peers |-> {}, calls |-> << >>]

NoReturn == [index |-> 0, cmd |-> Nil, ret |-> Nil, err |-> NoError, calls |-> << >>,
             pre |-> EmptyState, preMutation |-> [k \in Keys |-> NoEntry]]

Init ==
    /\ commitIndex = 0
    /\ queue = [n \in Nodes |-> << >>]
    /\ store = [n \in Nodes |-> << >>]
    /\ nameToURL = [n \in Nodes |-> << >>]
    /\ peers = [n \in Nodes |-> {}]
    /\ watchers = [n \in Nodes |-> {}]
    /\ chan = [n \in Nodes |-> [ctx \in Ctxs |-> << >>]]
    /\ pc = [n \in Nodes |-> [ctx \in Ctxs |-> "idle"]]
    /\ directCmd = [n \in Nodes |-> Nil]
    /\ last = [n \in Nodes |-> [ctx \in Ctxs |-> NoReturn]]
    /\ lastMutation = [n \in Nodes |-> [k \in Keys |-> NoEntry]]
    /\ registered = [n \in Nodes |-> [ctx \in Ctxs |-> 0]]

\* server.CommitIndex() while node n applies the head of its queue
CommitIndex(n) == Head(queue[n]).index

\* the store hands a change event to the watchers of its key: a watcher with
\* sinceIndex 0 takes any event, one with sinceIndex N > 0 an event of index >= N
Matches(w, event) ==
    /\ event # Nil
    /\ w.key = event.key
    /\ (w.sinceIndex = 0 \/ event.index >= w.sinceIndex)

Notified(n, event) == {w \in watchers[n] : Matches(w, event)}

Notify(n, event) ==
    /\ watchers' = [watchers EXCEPT ![n] = @ \ Notified(n, event)]
    /\ chan' = [chan EXCEPT ![n] = [ctx \in Ctxs |->
                   IF \E w \in Notified(n, event) : w.ctx = ctx
                   THEN Append(@[ctx], event) ELSE @[ctx]]]

\* what an Apply returned, with the node state it started from (kept for the
\* apply path only); calls is filled in by the Apply that made some
Return(n, ctx, index, c, ret, err) ==
    [index |-> index, cmd |-> c, ret |-> ret, err |-> err, calls |-> << >>,
     pre |-> IF ctx = "log" THEN NodeState(n) ELSE EmptyState,
     preMutation |-> IF ctx = "log" THEN lastMutation[n] ELSE [k \in Keys |-> NoEntry]]

(***************************************************************************)
(* The consensus engine commits a command: every node receives the entry.  *)
(***************************************************************************)
CommitQueued(c, cluster, max, backlog) ==
    /\ commitIndex < max
    /\ \A n \in cluster : Len(queue[n]) < backlog
    /\ commitIndex' = commitIndex + 1
    /\ queue' = [n \in Nodes |->
                   IF n \in cluster
                   THEN Append(queue[n], [index |-> commitIndex + 1, cmd |-> c])
                   ELSE queue[n]]
    /\ UNCHANGED << store, nameToURL, peers, watchers, chan, pc, directCmd, last,
                    lastMutation, registered >>

Commit(c, cluster, max) == CommitQueued(c, cluster, max, MaxQueue)

(***************************************************************************)
(* Node n applies the next committed entry: Set, TestAndSet, Get, Delete   *)
(* or Join.  Apply runs to its return before the next entry is taken.      *)
(***************************************************************************)
\* the entry behind a Watch applied without waiting for the Watch
ApplyEntryPastWatch(n) ==
    /\ queue[n] # << >>
    /\ LET i == IF Head(queue[n]).cmd.type = "watch" THEN 2 ELSE 1
       IN  /\ Len(queue[n]) >= i
           /\ queue[n][i].cmd.type # "watch"
           /\ \E addPeerOk \in BOOLEAN :
                 LET e == queue[n][i]
                     out == Apply(e.cmd, NodeState(n), e.index, addPeerOk)
                 IN  /\ store' = [store EXCEPT ![n] = out.S.store]
                     /\ nameToURL' = [nameToURL EXCEPT ![n] = out.S.nameToURL]
                     /\ peers' = [peers EXCEPT ![n] = out.S.peers]
                     /\ Notify(n, out.event)
                     /\ last' = [last EXCEPT ![n]["log"] =
                                   [Return(n, "log", e.index, e.cmd, out.ret, out.err)
                                    EXCEPT !.calls = out.S.calls]]
                     /\ lastMutation' = IF out.event = Nil THEN lastMutation
                                        ELSE [lastMutation EXCEPT ![n][out.event.key] = e]
           /\ queue' = [queue EXCEPT ![n] = IF i = 1 THEN Tail(@) ELSE << Head(@) >> \o Tail(Tail(@))]
    /\ UNCHANGED << commitIndex, pc, directCmd, registered >>

ApplyEntry(n) ==
    /\ pc[n]["log"] = "idle"
    /\ queue[n] # << >>
    /\ Head(queue[n]).cmd.type # "watch"
    /\ \E addPeerOk \in BOOLEAN :
          LET e == Head(queue[n])
              out == Apply(e.cmd, NodeState(n), CommitIndex(n), addPeerOk)
          IN  /\ store' = [store EXCEPT ![n] = out.S.store]
              /\ nameToURL' = [nameToURL EXCEPT ![n] = out.S.nameToURL]
              /\ peers' = [peers EXCEPT ![n] = out.S.peers]
              /\ Notify(n, out.event)
              /\ last' = [last EXCEPT ![n]["log"] =
                            [Return(n, "log", e.index, e.cmd, out.ret, out.err)
                             EXCEPT !.calls = out.S.calls]]
              /\ lastMutation' = IF out.event = Nil THEN lastMutation
                                 ELSE [lastMutation EXCEPT ![n][out.event.key] = e]
    /\ queue' = [queue EXCEPT ![n] = Tail(@)]
    /\ UNCHANGED << commitIndex, pc, directCmd, registered >>

(***************************************************************************)
(* WatchCommand.Apply up to the receive on watcher.C: in the apply path    *)
(* (the entry stays at the head of the queue until Apply returns) or in a  *)
(* direct caller.                                                          *)
(***************************************************************************)
\* watchers registered on every key, not on the command's key only
AddWatcherOnAllKeys(n, ctx, c) ==
    /\ watchers' = [watchers EXCEPT ![n] = @ \cup {WatchCommandAddWatcher(c, ctx)}
                       \cup {[ctx |-> ctx, key |-> k, sinceIndex |-> c.SinceIndex] : k \in PlainKeys}]
    /\ chan' = [chan EXCEPT ![n][ctx] = << >>]
    /\ pc' = [pc EXCEPT ![n][ctx] = "waiting"]
    /\ registered' = [registered EXCEPT ![n][ctx] = commitIndex - Len(queue[n])]

AddWatcher(n, ctx, c) ==
    /\ watchers' = [watchers EXCEPT ![n] = @ \cup {WatchCommandAddWatcher(c, ctx)}]
    /\ chan' = [chan EXCEPT ![n][ctx] = << >>]
    /\ pc' = [pc EXCEPT ![n][ctx] = "waiting"]
    /\ registered' = [registered EXCEPT ![n][ctx] = commitIndex - Len(queue[n])]

ApplyWatch(n) ==
    /\ pc[n]["log"] = "idle"
    /\ queue[n] # << >>
    /\ Head(queue[n]).cmd.type = "watch"
    /\ AddWatcher(n, "log", Head(queue[n]).cmd)
    /\ UNCHANGED << commitIndex, queue, store, nameToURL, peers, directCmd, last,
                    lastMutation >>

DirectWatch(n, c) ==
    /\ pc[n]["direct"] = "idle"
    /\ AddWatcher(n, "direct", c)
    /\ directCmd' = [directCmd EXCEPT ![n] = c]
    /\ UNCHANGED << commitIndex, queue, store, nameToURL, peers, last, lastMutation >>

\* the command the Watch running in ctx at node n was called with
WatchOf(n, ctx) == IF ctx = "log" THEN Head(queue[n]).cmd ELSE directCmd[n]

(***************************************************************************)
(* WatchCommand.Apply from the receive on watcher.C to its return.         *)
(***************************************************************************)
WatchResume(n, ctx) ==
    /\ pc[n][ctx] = "waiting"
    /\ chan[n][ctx] # << >>
    /\ LET r == WatchCommandReturn(Head(chan[n][ctx]))
           index == IF ctx = "log" THEN CommitIndex(n) ELSE 0
       IN  last' = [last EXCEPT ![n][ctx] = Return(n, ctx, index, WatchOf(n, ctx), r.ret, r.err)]
    /\ chan' = [chan EXCEPT ![n][ctx] = << >>]
    /\ pc' = [pc EXCEPT ![n][ctx] = "idle"]
    /\ queue' = IF ctx = "log" THEN [queue EXCEPT ![n] = Tail(@)] ELSE queue
    /\ directCmd' = IF ctx = "direct" THEN [directCmd EXCEPT ![n] = Nil] ELSE directCmd
    /\ UNCHANGED << commitIndex, store, nameToURL, peers, watchers, lastMutation,
                    registered >>

(***************************************************************************)
(* A pending watcher is cleared: the store drops it and delivers the nil   *)
(* sentinel on its channel.                                                *)
(***************************************************************************)
ClearWatcher(n, ctx) ==
    /\ \E w \in watchers[n] : w.ctx = ctx
    /\ watchers' = [watchers EXCEPT ![n] = {w \in @ : w.ctx # ctx}]
    /\ chan' = [chan EXCEPT ![n][ctx] = Append(@, Nil)]
    /\ UNCHANGED << commitIndex, queue, store, nameToURL, peers, pc, directCmd, last,
                    lastMutation, registered >>

(***************************************************************************)
(* A fast-path read: a caller invokes GetCommand.Apply without proposing.  *)
(* The return is kept with the number of entries node n had applied.       *)
(***************************************************************************)
DirectGet(n, c) ==
    /\ pc[n]["direct"] = "idle"
    /\ LET out == GetCommandApply(c, NodeState(n))
       IN  /\ last' = [last EXCEPT ![n]["direct"] =
                         Return(n, "direct", commitIndex - Len(queue[n]), c,
                                out.ret, out.err)]
           /\ store' = [store EXCEPT ![n] = out.S.store]
           /\ nameToURL' = [nameToURL EXCEPT ![n] = out.S.nameToURL]
           /\ peers' = [peers EXCEPT ![n] = out.S.peers]
    /\ UNCHANGED << commitIndex, queue, watchers, chan, pc, directCmd, lastMutation,
                    registered >>

(***************************************************************************)
(* Spec: a cluster of two nodes applying Set, TestAndSet, Get, Delete and  *)
(* Join commands.                                                          *)
(***************************************************************************)
Next ==
    \/ \E c \in Commands : Commit(c, Nodes, MaxIndex)
    \/ \E n \in Nodes : ApplyEntry(n)

Spec == Init /\ [][Next]_vars

(***************************************************************************)
(* WatchSpec: a cluster of one node whose clients also call Watch directly,*)
(* so that entries are applied while a Watch waits.                        *)
(***************************************************************************)
WatchNext ==
    \/ \E c \in WatchCommands : Commit(c, DirectNodes, MaxIndex)
    \/ \E n \in DirectNodes : ApplyEntry(n)
    \/ \E n \in DirectNodes : ApplyWatch(n)
    \/ \E n \in DirectNodes, c \in Watches : DirectWatch(n, c)
    \/ \E n \in DirectNodes, ctx \in Ctxs : WatchResume(n, ctx)
    \/ \E n \in DirectNodes, ctx \in Ctxs : ClearWatcher(n, ctx)

WatchSpec == Init /\ [][WatchNext]_vars

(***************************************************************************)
(* JoinSpec: one node, Join commands and commands on membership records.   *)
(***************************************************************************)
JoinNext ==
    \/ \E c \in JoinCommands : Commit(c, DirectNodes, MaxJoinIndex)
    \/ \E n \in DirectNodes : ApplyEntry(n)

JoinSpec == Init /\ [][JoinNext]_vars

(***************************************************************************)
(* JoinOnlySpec: one node, nothing but Join commands, from an empty        *)
(* membership.                                                             *)
(***************************************************************************)
JoinOnlyNext ==
    \/ \E c \in Joins \cup Rejoins : Commit(c, DirectNodes, MaxJoinIndex)
    \/ \E n \in DirectNodes : ApplyEntry(n)

JoinOnlySpec == Init /\ [][JoinOnlyNext]_vars

(***************************************************************************)
(* Properties.  Applied(n) is what the latest Apply in node n's apply path *)
(* returned, with the node state it started from.                          *)
(***************************************************************************)
Applied(n) == last[n]["log"]

IsApplied(n, type) == Applied(n).cmd # Nil /\ Applied(n).cmd.type = type

CompareMismatch == StoreError("CompareMismatch")

ClusterFull == NewError(103, "")

\* node n has just applied a TestAndSet of key k whose PrevValue is the one of
\* the TestAndSet that last changed k, no other change of k in between
SecondTestAndSet(n) ==
    /\ IsApplied(n, "testAndSet")
    /\ LET first == Applied(n).preMutation[Applied(n).cmd.Key].cmd
       IN  /\ first # Nil
           /\ first.type = "testAndSet"
           /\ first.PrevValue = Applied(n).cmd.PrevValue

FirstOf(n) == Applied(n).preMutation[Applied(n).cmd.Key].cmd

\* a TestAndSet whose PrevValue is the value of its key succeeds and writes
\* its Value
TestAndSetSucceeds(n) ==
    (/\ IsApplied(n, "testAndSet")
     /\ Applied(n).cmd.Key \in DOMAIN Applied(n).pre.store
     /\ Applied(n).pre.store[Applied(n).cmd.Key].value = Applied(n).cmd.PrevValue)
    => /\ Applied(n).err = NoError
       /\ store[n][Applied(n).cmd.Key].value = Applied(n).cmd.Value

SecondFails(n) ==
    /\ Applied(n).err = CompareMismatch
    /\ Applied(n).ret = Nil
    /\ store[n] = Applied(n).pre.store
    /\ store[n][Applied(n).cmd.Key].value = FirstOf(n).Value

\* C1 as stated: of two TestAndSet proposals on a key with the same prevValue,
\* the value of the key when the first is applied, with no other change of the
\* key in between, the first succeeds and the second fails with
\* CompareMismatch and leaves the key at the first's value, on every node.
C1_SecondAlwaysFails ==
    \A n \in Nodes :
        /\ TestAndSetSucceeds(n)
        /\ SecondTestAndSet(n) => SecondFails(n)

\* C1, amended: the same, for a first proposal whose value differs from its
\* prevValue.
C1_TestAndSetAtomicity ==
    \A n \in Nodes :
        /\ TestAndSetSucceeds(n)
        /\ (SecondTestAndSet(n) /\ FirstOf(n).Value # FirstOf(n).PrevValue)
           => SecondFails(n)

C1_Witness ==
    \A n \in Nodes :
        /\ SecondTestAndSet(n)
        /\ FirstOf(n).Value # FirstOf(n).PrevValue
        /\ Applied(n).err = CompareMismatch

\* C2: two replicas that have applied the same committed sequence of Set,
\* TestAndSet, Get, Delete and Join commands hold the same store content
\* (keys, values, expire times, index stamps), whatever AddPeer answered on
\* either of them.
C2_Determinism ==
    \A m, n \in Nodes : queue[m] = queue[n] => store[m] = store[n]

C2_Witness ==
    /\ queue[1] = << >> /\ queue[2] = << >>
    /\ commitIndex >= 2
    /\ peers[1] # peers[2]
    /\ MachineKey("n1") \in DOMAIN store[1]
    /\ "a" \in DOMAIN store[2]

\* node n has just applied a Join
JoinApplied(n) == IsApplied(n, "join")

HadRecord(n) == MachineKey(Applied(n).cmd.Name) \in DOMAIN Applied(n).pre.store

Unchanged(n) ==
    /\ NodeState(n) = Applied(n).pre
    /\ lastMutation[n] = Applied(n).preMutation

JoinSucceeded(n) == Applied(n).ret = Bytes("join success") /\ Applied(n).err = NoError

JoinRejected(n) == Applied(n).ret = Bytes("join fail") /\ Applied(n).err = ClusterFull

\* C3: a Join of a name that has a membership record returns "join success"
\* with no error and leaves the store, the membership count, the routing
\* directory and the peer list as they were.
C3_JoinIdempotent ==
    \A n \in Nodes :
        (JoinApplied(n) /\ HadRecord(n))
        => /\ JoinSucceeded(n)
           /\ Unchanged(n)
           /\ machineNum(NodeState(n)) = machineNum(Applied(n).pre)

C3_Witness ==
    \E n \in Nodes :
        /\ JoinApplied(n) /\ HadRecord(n)
        /\ Applied(n).cmd.Name \in peers[n]
        /\ nameToURL[n][Applied(n).cmd.Name].raftURL = Applied(n).cmd.RaftURL

\* C4: with the membership count at the maximum, a Join of a name with no
\* record returns "join fail" and the ClusterFull error (103) and changes
\* nothing.
C4_JoinAtCapacity ==
    \A n \in Nodes :
        (/\ JoinApplied(n) /\ ~HadRecord(n)
         /\ machineNum(Applied(n).pre) = maxClusterSize)
        => JoinRejected(n) /\ Unchanged(n)

C4_Witness ==
    \E n \in Nodes :
        /\ JoinApplied(n) /\ ~HadRecord(n)
        /\ machineNum(Applied(n).pre) = maxClusterSize
        /\ Applied(n).err.errorCode = 103

\* C5: a Join of a name with no record is rejected with ClusterFull and
\* changes nothing whenever the membership count is at or above the maximum,
\* above it included.
C5_JoinAtOrAboveCapacity ==
    \A n \in Nodes :
        (/\ JoinApplied(n) /\ ~HadRecord(n)
         /\ machineNum(Applied(n).pre) >= maxClusterSize)
        => JoinRejected(n) /\ Unchanged(n)

\* C6: from an empty membership, no sequence of Join commands takes the
\* number of membership records above the maximum.
C6_CapacityBound ==
    \A n \in Nodes : machineNum(NodeState(n)) <= maxClusterSize

C6_Witness ==
    \E n \in Nodes :
        /\ machineNum(NodeState(n)) = maxClusterSize
        /\ JoinApplied(n) /\ ~HadRecord(n) /\ JoinRejected(n)
        /\ peers[n] # DOMAIN nameToURL[n]

\* C7: the replay check comes before the capacity check: with the count at
\* the maximum, a Join of a name that has a record succeeds, a Join of a name
\* that has none fails with ClusterFull, and the count stays in both cases.
C7_ReplayBeforeCapacity ==
    \A n \in Nodes :
        (JoinApplied(n) /\ machineNum(Applied(n).pre) = maxClusterSize)
        => /\ IF HadRecord(n) THEN JoinSucceeded(n) ELSE JoinRejected(n)
           /\ machineNum(NodeState(n)) = maxClusterSize

C7_Witness ==
    \E n \in Nodes :
        /\ JoinApplied(n) /\ HadRecord(n) /\ JoinSucceeded(n)
        /\ machineNum(Applied(n).pre) = maxClusterSize
        /\ machineNum(NodeState(n)) = maxClusterSize

\* C10: every record of the store carries the index of the log entry whose
\* command wrote it, and the change a Set, TestAndSet, Delete or Join has just
\* made carries the index of the entry just applied, on every node.
C10_CommitIndexStamps ==
    \A n \in Nodes :
        /\ \A k \in DOMAIN store[n] : store[n][k].index = lastMutation[n][k].index
        /\ (Applied(n).ret # Nil /\ Applied(n).ret.kind = "response"
            /\ Applied(n).ret.action # "GET")
           => Applied(n).ret.index = Applied(n).index

C10_Witness ==
    \A n \in Nodes :
        /\ lastMutation[n]["a"].index = 2
        /\ lastMutation[n]["a"].cmd.type = "testAndSet"
        /\ "a" \in DOMAIN store[n] /\ store[n]["a"].index = 2
        /\ MachineKey("n2") \in DOMAIN store[n]
        /\ store[n][MachineKey("n2")].index = 3

(***************************************************************************)
(* WatchFairSpec: a Watch whose channel holds a delivery is resumed: the   *)
(* receive on watcher.C does not block once a value is in the channel.     *)
(***************************************************************************)
WatchFairSpec ==
    WatchSpec /\ \A n \in DirectNodes, ctx \in Ctxs : WF_vars(WatchResume(n, ctx))

\* the Watch running in ctx waits and its watcher is still registered
Suspended(n, ctx) == pc[n][ctx] = "waiting" /\ chan[n][ctx] = << >>

\* the Watch running in ctx waits and its watcher has been cleared
Cleared(n, ctx) == pc[n][ctx] = "waiting" /\ chan[n][ctx] = << Nil >>

ReturnedCleared(n, ctx) ==
    /\ pc[n][ctx] = "idle"
    /\ last[n][ctx].cmd # Nil /\ last[n][ctx].cmd.type = "watch"
    /\ last[n][ctx].err = Errorf("Clearing watch")
    /\ last[n][ctx].ret = Nil

\* C8: a Watch whose watcher is cleared while it waits returns, and what it
\* returns is the WatchCleared error with no result: it does not stay
\* suspended and does not return a change event.
C8_WatchCancellation ==
    /\ [][\A n \in DirectNodes, ctx \in Ctxs :
            (Cleared(n, ctx) /\ pc'[n][ctx] = "idle") => ReturnedCleared(n, ctx)']_vars
    /\ \A n \in DirectNodes, ctx \in Ctxs : Cleared(n, ctx) ~> ReturnedCleared(n, ctx)

C8_Witness ==
    \E n \in DirectNodes :
        /\ ReturnedCleared(n, "log")
        /\ ReturnedCleared(n, "direct")

\* the step changes key of node n, by the entry of index idx
Mutates(n, key) == lastMutation'[n][key] # lastMutation[n][key]

\* C9: a waiting Watch on key k with sinceIndex N receives a change event
\* exactly in a step that changes k under an index >= N (any index when N
\* is 0), the event of that change, hence of the next such change after it
\* registered; no other step delivers an event to it, and what it returns is
\* the event it received.
C9_WatchOrdering ==
    [][\A n \in DirectNodes, ctx \in Ctxs :
         LET c == WatchOf(n, ctx)
             idx == lastMutation'[n][c.Key].index
         IN  /\ Suspended(n, ctx) =>
                  IF Mutates(n, c.Key) /\ (c.SinceIndex = 0 \/ idx >= c.SinceIndex)
                  THEN /\ Len(chan'[n][ctx]) = 1
                       /\ chan'[n][ctx][1] # Nil
                       /\ chan'[n][ctx][1].key = c.Key
                       /\ chan'[n][ctx][1].index = idx
                  ELSE chan'[n][ctx] \in {<< >>, << Nil >>}
             /\ (/\ pc[n][ctx] = "waiting" /\ pc'[n][ctx] = "idle"
                 /\ Head(chan[n][ctx]) # Nil)
                => /\ last'[n][ctx].ret = Marshal(Head(chan[n][ctx]))
                   /\ last'[n][ctx].err = NoError
                   /\ last'[n][ctx].ret.body.key = c.Key
                   /\ last'[n][ctx].ret.body.index >= c.SinceIndex]_vars

C9_Witness ==
    \E n \in DirectNodes :
        /\ last[n]["direct"].cmd = WatchCommand("a", 2)
        /\ last[n]["direct"].ret.kind = "json"
        /\ last[n]["direct"].ret.body.index = 2
        /\ last[n]["direct"].ret.body.prevValue = "1"
        /\ registered[n]["direct"] = 0

\* the error of a failed AddPeer
PeerAddFailed == [kind |-> "raftErr", msg |-> "AddPeer"]

\* the latest Apply of node n called AddPeer and the call failed
AddPeerFailed(n) ==
    \E i \in DOMAIN Applied(n).calls :
        Applied(n).calls[i].op = "AddPeer" /\ ~Applied(n).calls[i].ok

\* the membership record a Join command writes
JoinRecordValue(c) == "raft=" \o c.RaftURL \o "&etcd=" \o c.EtcdURL

HasJoinRecord(n, c) ==
    /\ MachineKey(c.Name) \in DOMAIN store[n]
    /\ store[n][MachineKey(c.Name)].value = JoinRecordValue(c)
    /\ store[n][MachineKey(c.Name)].expireTime = PERMANENT

HasRoute(n, c) ==
    /\ c.Name \in DOMAIN nameToURL[n]
    /\ nameToURL[n][c.Name] = [raftURL |-> c.RaftURL, etcdURL |-> c.EtcdURL]

\* C11: a Join of a name with no record, below the maximum, whose AddPeer
\* call fails is not rolled back: the routing directory holds the name's
\* URLs, the store holds the permanent membership record, the membership
\* count has grown by one, and the AddPeer error is what Apply returns.
C11_JoinPartialSuccess ==
    \A n \in Nodes :
        (/\ JoinApplied(n) /\ ~HadRecord(n)
         /\ machineNum(Applied(n).pre) < maxClusterSize
         /\ AddPeerFailed(n))
        => /\ HasRoute(n, Applied(n).cmd)
           /\ HasJoinRecord(n, Applied(n).cmd)
           /\ machineNum(NodeState(n)) = machineNum(Applied(n).pre) + 1
           /\ Applied(n).err = PeerAddFailed
           /\ peers[n] = Applied(n).pre.peers

C11_Witness ==
    \E n \in Nodes :
        /\ JoinApplied(n) /\ ~HadRecord(n) /\ AddPeerFailed(n)
        /\ machineNum(Applied(n).pre) = 1
        /\ machineNum(NodeState(n)) = 2
        /\ Applied(n).cmd.Name \notin peers[n]
        /\ Applied(n).err # NoError

(***************************************************************************)
(* GetSpec: one node applying Set, TestAndSet, Get and Delete commands,    *)
(* whose clients also read on the fast path.                               *)
(***************************************************************************)
GetCommands == Sets \cup TestAndSets \cup Gets \cup Deletes

GetNext ==
    \/ \E c \in GetCommands : Commit(c, DirectNodes, MaxIndex)
    \/ \E n \in DirectNodes : ApplyEntry(n)
    \/ \E n \in DirectNodes, c \in Gets : DirectGet(n, c)

GetSpec == Init /\ [][GetNext]_vars

KeyNotFound == StoreError("KeyNotFound")

\* r, what a Get returned, is what the entry that last changed its key left:
\* the value a Set or TestAndSet wrote, KeyNotFound after a Delete or when
\* nothing has written the key
GetReflects(r, entry) ==
    IF entry.cmd # Nil /\ entry.cmd.type \in {"set", "testAndSet"}
    THEN /\ r.err = NoError
         /\ r.ret.kind = "response"
         /\ r.ret.key = r.cmd.Key
         /\ r.ret.value = entry.cmd.Value
    ELSE /\ r.err = KeyNotFound
         /\ r.ret = Nil

\* a direct caller's Apply returns in this step
DirectReturns(n) == last'[n]["direct"] # last[n]["direct"]

\* C12: Get returns the value written by the latest successful Set or
\* TestAndSet of its key that no successful Delete has followed, fails with
\* KeyNotFound when the key is absent, and leaves the store, the membership
\* records, the routing directory and the peer list as they were, applied
\* through the log or called directly.
C12_GetReadOnly ==
    /\ [](\A n \in DirectNodes :
            IsApplied(n, "get")
            => /\ GetReflects(Applied(n), Applied(n).preMutation[Applied(n).cmd.Key])
               /\ Unchanged(n))
    /\ [][\A n \in DirectNodes :
            DirectReturns(n)
            => /\ last'[n]["direct"].cmd.type = "get"
               /\ GetReflects(last'[n]["direct"],
                              lastMutation[n][last'[n]["direct"].cmd.Key])
               /\ UNCHANGED << store, nameToURL, peers, lastMutation >>]_vars

C12_Witness ==
    \E n \in DirectNodes :
        /\ IsApplied(n, "get") /\ Applied(n).err = NoError
        /\ Applied(n).ret.value = "2"
        /\ Applied(n).preMutation["a"].cmd.type = "testAndSet"
        /\ last[n]["direct"].cmd = GetCommand("a")
        /\ last[n]["direct"].err = KeyNotFound
        /\ last[n]["direct"].index = 0

\* the key of the command node n has just applied was present before it
KeyWasPresent(n) == Applied(n).cmd.Key \in DOMAIN Applied(n).pre.store

\* the latest Apply of node n failed with err and changed nothing
FailedWith(n, err) ==
    /\ Applied(n).err = err
    /\ Applied(n).ret = Nil
    /\ Unchanged(n)

\* C13: a Delete of a present key removes it and nothing else, and a Get of
\* the key fails with KeyNotFound as long as nothing has written it again; a
\* Delete of an absent key fails with KeyNotFound and a TestAndSet whose
\* prevValue differs from the value of its key fails with CompareMismatch,
\* the store being left as it was in both cases.
C13_DeleteAndMismatch ==
    \A n \in Nodes :
        /\ (IsApplied(n, "delete") /\ KeyWasPresent(n))
           => /\ Applied(n).err = NoError
              /\ DOMAIN store[n] = DOMAIN Applied(n).pre.store \ {Applied(n).cmd.Key}
              /\ \A k \in DOMAIN store[n] : store[n][k] = Applied(n).pre.store[k]
        /\ (/\ IsApplied(n, "get")
            /\ Applied(n).preMutation[Applied(n).cmd.Key].cmd # Nil
            /\ Applied(n).preMutation[Applied(n).cmd.Key].cmd.type = "delete")
           => FailedWith(n, KeyNotFound)
        /\ (IsApplied(n, "delete") /\ ~KeyWasPresent(n))
           => FailedWith(n, KeyNotFound)
        /\ (/\ IsApplied(n, "testAndSet") /\ KeyWasPresent(n)
            /\ Applied(n).pre.store[Applied(n).cmd.Key].value # Applied(n).cmd.PrevValue)
           => FailedWith(n, CompareMismatch)

C13_Witness ==
    /\ IsApplied(1, "get")
    /\ Applied(1).preMutation["a"].cmd = DeleteCommand("a")
    /\ Applied(1).err = KeyNotFound
    /\ IsApplied(2, "delete") /\ KeyWasPresent(2)
    /\ "a" \notin DOMAIN store[2]

(***************************************************************************)
(* SerialSpec: one node that receives Set and Watch entries while it is    *)
(* inside a Watch, so that committed entries wait behind the Watch.        *)
(***************************************************************************)
SerialCommands == Sets \cup Watches

SerialNext ==
    \/ \E c \in SerialCommands : CommitQueued(c, DirectNodes, MaxIndex, MaxBacklog)
    \/ \E n \in DirectNodes : ApplyEntry(n)
    \/ \E n \in DirectNodes : ApplyWatch(n)
    \/ \E n \in DirectNodes : WatchResume(n, "log")
    \/ \E n \in DirectNodes : ClearWatcher(n, "log")

SerialSpec == Init /\ [][SerialNext]_vars

\* the number of entries node n has applied
Position(n) == commitIndex - Len(queue[n])

\* the same after the step
NextPosition(n) == commitIndex' - Len(queue'[n])

\* C14: a node applies committed entries one at a time, in commit order,
\* and while its apply path is suspended inside a Watch it applies nothing:
\* its state is left alone and its applied position stays at the Watch entry
\* until the Watch returns, on a delivery to its watcher.
C14_SerialApply ==
    [][\A n \in DirectNodes :
         /\ NextPosition(n) \in {Position(n), Position(n) + 1}
         /\ NextPosition(n) = Position(n) + 1
            => /\ queue'[n] = Tail(queue[n])
               /\ Head(queue[n]).index = Position(n) + 1
               /\ last'[n]["log"].index = Position(n) + 1
               /\ last'[n]["log"].cmd = Head(queue[n]).cmd
         /\ pc[n]["log"] = "waiting"
            => /\ Head(queue[n]).cmd.type = "watch"
               /\ UNCHANGED << store, nameToURL, peers, lastMutation >>
               /\ IF pc'[n]["log"] = "idle"
                  THEN /\ chan[n]["log"] # << >>
                       /\ NextPosition(n) = Position(n) + 1
                  ELSE /\ NextPosition(n) = Position(n)
                       /\ last'[n]["log"] = last[n]["log"]]_vars

C14_Witness ==
    \E n \in DirectNodes :
        /\ pc[n]["log"] = "waiting"
        /\ Len(queue[n]) = 2
        /\ queue[n][1].cmd.type = "watch"
        /\ queue[n][2].cmd.type = "set"
        /\ IsApplied(n, "watch")
        /\ Position(n) = 1

\* the watchers the Watch running in ctx at node n has registered
WatchersOf(n, ctx) == {w \in watchers[n] : w.ctx = ctx}

\* the Watch running in ctx returns in this step
WatchReturns(n, ctx) == pc[n][ctx] = "waiting" /\ pc'[n][ctx] = "idle"

\* C15: a Watch apply registers exactly one watcher, on its key and
\* sinceIndex, and returns exactly once, after exactly one delivery on that
\* watcher: a change event, returned serialized with no error, or the nil
\* sentinel, returned as the WatchCleared error.  A watcher receives no second
\* delivery and no Watch returns without one.
C15_SingleDelivery ==
    /\ [](\A n \in DirectNodes, ctx \in Ctxs :
            IF pc[n][ctx] = "waiting"
            THEN Cardinality(WatchersOf(n, ctx)) + Len(chan[n][ctx]) = 1
            ELSE WatchersOf(n, ctx) = {} /\ chan[n][ctx] = << >>)
    /\ [][\A n \in DirectNodes, ctx \in Ctxs :
            /\ (pc[n][ctx] = "idle" /\ pc'[n][ctx] = "waiting")
               => WatchersOf(n, ctx)' =
                     {[ctx |-> ctx, key |-> WatchOf(n, ctx)'.Key,
                       sinceIndex |-> WatchOf(n, ctx)'.SinceIndex]}
            /\ WatchReturns(n, ctx)
               => /\ Len(chan[n][ctx]) = 1
                  /\ last'[n][ctx].cmd = WatchOf(n, ctx)
                  /\ IF Head(chan[n][ctx]) = Nil
                     THEN /\ last'[n][ctx].ret = Nil
                          /\ last'[n][ctx].err = Errorf("Clearing watch")
                     ELSE /\ last'[n][ctx].ret = Marshal(Head(chan[n][ctx]))
                          /\ last'[n][ctx].err = NoError
            /\ (/\ last'[n][ctx] # last[n][ctx]
                /\ last'[n][ctx].cmd # Nil /\ last'[n][ctx].cmd.type = "watch")
               => WatchReturns(n, ctx)
            /\ (chan[n][ctx] # << >> /\ ~WatchReturns(n, ctx))
               => chan'[n][ctx] = chan[n][ctx]]_vars

C15_Witness ==
    \E n \in DirectNodes :
        /\ ReturnedCleared(n, "log")
        /\ pc[n]["direct"] = "idle"
        /\ last[n]["direct"].cmd = WatchCommand("a", 0)
        /\ last[n]["direct"].ret.kind = "json"
        /\ last[n]["direct"].err = NoError

\* the calls of an accepted Join, in their order
JoinCalls(c, idx, ok) ==
    << [op |-> "addNameToURL", name |-> c.Name, raftURL |-> c.RaftURL,
        etcdURL |-> c.EtcdURL],
       [op |-> "AddPeer", name |-> c.Name, ok |-> ok],
       [op |-> "Set", key |-> "_etcd/machines/" \o c.Name,
        value |-> "raft=" \o c.RaftURL \o "&etcd=" \o c.EtcdURL,
        expireTime |-> "1970-01-01T00:00:00Z", index |-> idx] >>

\* C16: a Join of a name with no record, below the maximum, registers the
\* name's URLs in the routing directory, then calls AddPeer, then writes the
\* record _etcd/machines/<name> = raft=<raftURL>&etcd=<etcdURL> with the
\* epoch-zero expire time, in this order and whatever AddPeer answers; a Join
\* of a recorded name and a Join rejected for capacity make none of the
\* three calls.
C16_JoinSideEffectOrder ==
    \A n \in Nodes :
        JoinApplied(n)
        => /\ (~HadRecord(n) /\ machineNum(Applied(n).pre) < maxClusterSize)
              => \E ok \in BOOLEAN :
                    Applied(n).calls = JoinCalls(Applied(n).cmd, Applied(n).index, ok)
           /\ (HadRecord(n) \/ JoinRejected(n))
              => Applied(n).calls = << >> /\ Unchanged(n)

C16_Witness ==
    \E n \in Nodes :
        /\ JoinApplied(n) /\ ~HadRecord(n)
        /\ Applied(n).cmd = JoinCommand("n2", "r2", "e2")
        /\ Len(Applied(n).calls) = 3
        /\ Applied(n).calls[3].value = "raft=r2&etcd=e2"
        /\ Applied(n).calls[3].index = 2
        /\ ~Applied(n).calls[2].ok

\* name has a membership record at node n and is no peer of its raft server
Stranded(n, name) ==
    /\ MachineKey(name) \in DOMAIN store[n]
    /\ name \notin peers[n]

\* node n applies a Join of name in this step
AppliesJoinOf(n, name) ==
    /\ queue[n] # << >>
    /\ queue'[n] = Tail(queue[n])
    /\ Head(queue[n]).cmd.type = "join"
    /\ Head(queue[n]).cmd.Name = name

CalledAddPeer(r) == \E i \in DOMAIN r.calls : r.calls[i].op = "AddPeer"

\* C17: a Join of a name that has a membership record does not call AddPeer.
\* So a name whose Join had its AddPeer call fail has a record and is no
\* peer, and under Join commands alone it stays so: every later Join of the
\* name returns "join success" with no error, calls nothing, and the name
\* does not enter the peer list.
C17_NoPeerRetry ==
    /\ [](\A n \in Nodes :
            JoinApplied(n)
            => /\ HadRecord(n) => ~CalledAddPeer(Applied(n))
               /\ AddPeerFailed(n) => Stranded(n, Applied(n).cmd.Name))
    /\ [][\A n \in Nodes, name \in Names :
            Stranded(n, name)
            => /\ Stranded(n, name)'
               /\ AppliesJoinOf(n, name)
                  => /\ last'[n]["log"].ret = Bytes("join success")
                     /\ last'[n]["log"].err = NoError
                     /\ last'[n]["log"].calls = << >>]_vars

C17_Witness ==
    \E n \in Nodes :
        /\ JoinApplied(n) /\ HadRecord(n) /\ JoinSucceeded(n)
        /\ Stranded(n, Applied(n).cmd.Name)
        /\ Applied(n).calls = << >>
        /\ Applied(n).index >= 3

\* the names that have a membership record at node n
Members(n) == {name \in RecordNames : MachineKey(name) \in DOMAIN store[n]}

\* the Apply whose return is r called AddPeer and the call failed
FailedIn(r) == \E i \in DOMAIN r.calls : r.calls[i].op = "AddPeer" /\ ~r.calls[i].ok

\* C18: under Join commands alone, from an empty membership, the names with
\* a membership record are the names in the routing directory, and the peers
\* are among them; the peers are all of them as long as no AddPeer call has
\* failed.
C18_MembershipConsistency ==
    /\ [](\A n \in Nodes :
            /\ Members(n) = DOMAIN nameToURL[n]
            /\ peers[n] \subseteq Members(n))
    /\ [][\A n \in Nodes :
            (/\ peers[n] = Members(n)
             /\ last'[n]["log"] = last[n]["log"] \/ ~FailedIn(last'[n]["log"]))
            => peers'[n] = Members(n)']_vars

C18_Witness ==
    \E n \in Nodes :
        /\ Members(n) = {"n1", "n3"}
        /\ DOMAIN nameToURL[n] = {"n1", "n3"}
        /\ peers[n] = {"n3"}
        /\ JoinApplied(n) /\ JoinRejected(n)

\* the Join that wrote the membership record of name at node n
RecordedJoin(n, name) == lastMutation[n][MachineKey(name)].cmd

\* node n has just applied a Join of a recorded name under other URLs than
\* the recorded ones
RejoinedUnderOtherURLs(n) ==
    /\ JoinApplied(n) /\ HadRecord(n)
    /\ Applied(n).pre.store[MachineKey(Applied(n).cmd.Name)].value
          # JoinRecordValue(Applied(n).cmd)

\* C19: the replay check looks at the name only: a Join of a recorded name
\* under other URLs returns "join success" with no error, and the membership
\* record and the routing directory entry of the name keep the URLs of the
\* Join that was accepted first.
C19_ReplayByNameOnly ==
    \A n \in Nodes :
        RejoinedUnderOtherURLs(n)
        => /\ JoinSucceeded(n)
           /\ Unchanged(n)
           /\ RecordedJoin(n, Applied(n).cmd.Name) # Applied(n).cmd
           /\ RecordedJoin(n, Applied(n).cmd.Name).Name = Applied(n).cmd.Name
           /\ HasJoinRecord(n, RecordedJoin(n, Applied(n).cmd.Name))
           /\ HasRoute(n, RecordedJoin(n, Applied(n).cmd.Name))

C19_Witness ==
    \E n \in Nodes :
        /\ RejoinedUnderOtherURLs(n)
        /\ Applied(n).cmd = JoinCommand("n1", "r2", "e2")
        /\ store[n][MachineKey("n1")].value = "raft=r1&etcd=e1"
        /\ nameToURL[n]["n1"].raftURL = "r1"
        /\ machineNum(NodeState(n)) < maxClusterSize

====
